---- MODULE Spec2Model ----
(***************************************************************************)
(* Model of ler_documentos.py: the overlapping word-window chunker, the    *)
(* model-profile store (modelos_orientacoes.json), the per-chunk           *)
(* extraction stage, the consolidation stage and the main pipeline.        *)
(*                                                                         *)
(* Texts (document text, chunks) are sequences of lexemes: WS is a run of  *)
(* whitespace, every other lexeme is a word.  Inference responses are      *)
(* sequences of characters over a three-letter alphabet in which the       *)
(* phrase "Nenhuma informação técnica relevante" is the two-letter string  *)
(* "NN" and the sentinel of the system prompt is "NN.".                    *)
(***************************************************************************)
EXTENDS Integers, Sequences, FiniteSets, TLC

VARIABLES
    MAX_CHUNK_SIZE,     \* module global, line 23
    CHUNK_OVERLAP,      \* module global, line 24
    texto,              \* argument of dividir_em_chunks / texto_bruto of main
    palavras,           \* dividir_em_chunks: texto.split()
    chunks,             \* dividir_em_chunks: the list being built / main's chunks
    janelas,            \* history: <<i, fim>> of every recorded chunk
    i,                  \* dividir_em_chunks: start index of the next window
    excedente,          \* parity of the appended chunks the model no longer records
    arquivo,            \* the file ORIENTACOES_FILE on disk
    orientacoes,        \* the dict a call holds after carregar_orientacoes_modelos
    salvando,           \* salvar_orientacao_modelo: its model_id argument
    antes,              \* history: the file as the running save found it
    relogio,            \* datetime.now(), counted in saves
    modelo_id,          \* main / extrair_informacoes: the model id, or None
    system_prompt,      \* extrair_informacoes: the system instruction
    topicos_modelo,     \* extrair_informacoes: the resolved topic list
    bloco,              \* extrair_informacoes: index of the chunk being analysed
    resumos,            \* extrair_informacoes: the list built / main's extractions
    chamadas,           \* history: every chamar_ollama call, in order
    pasta,              \* the project folder on disk
    project_id,         \* main: sys.argv[1]
    consolidado,        \* main: the consolidated document
    resumo_executivo,   \* main: the executive summary
    saidas,             \* the output files written, in order
    exit_code,          \* the process's exit status, -1 while it runs
    pc                  \* position of the running call

chunkVars == <<MAX_CHUNK_SIZE, CHUNK_OVERLAP, texto, palavras, chunks, janelas, i, excedente>>

lojaVars == <<arquivo, salvando, antes, relogio>>

extVars == <<modelo_id, system_prompt, topicos_modelo, bloco, resumos, chamadas>>

mainVars == <<pasta, project_id, consolidado, resumo_executivo, saidas, exit_code>>

vars == <<chunkVars, lojaVars, orientacoes, extVars, mainVars, pc>>

-----------------------------------------------------------------------------
(* Bounds of the model *)

MaxChars == 12

MaxTexto == 7

MaxSalvar == 2

MaxResposta == 3

MaxBlocos == 2

MaxNomePalavras == 2

-----------------------------------------------------------------------------
(* Texts as lexeme sequences *)

WS == " "

Min(a, b) == IF a <= b THEN a ELSE b

SeqsAte(S, n) == UNION {[1..k -> S] : k \in 0..n}

\* str.split(): the maximal runs of non-whitespace, in order
Split(t) == SelectSeq(t, LAMBDA x : x # WS)

\* " ".join(ws)
Join(ws) ==
    [k \in 1..(IF Len(ws) = 0 THEN 0 ELSE 2 * Len(ws) - 1) |->
        IF k % 2 = 1 THEN ws[(k + 1) \div 2] ELSE WS]

\* Python slice s[a:b] for 0 <= a (an end past the sequence is clamped)
Slice(s, a, b) == SubSeq(s, a + 1, Min(b, Len(s)))

\* A lexeme sequence is a text when no two words are adjacent
\* (two adjacent runs of non-whitespace are one word).
EhTexto(t) == \A k \in 1..(Len(t) - 1) : t[k] = WS \/ t[k + 1] = WS

-----------------------------------------------------------------------------
(* Values of the variables a call does not use *)

\* None
Nenhum == [none |-> TRUE]

\* lines 23-24
ConfiguracaoDoCodigo ==
    /\ MAX_CHUNK_SIZE = 1200
    /\ CHUNK_OVERLAP = 250

SemTexto ==
    /\ texto = <<>>
    /\ palavras = <<>>
    /\ chunks = <<>>
    /\ janelas = <<>>
    /\ i = 0
    /\ excedente = 0

SemSalvar ==
    /\ salvando = "nenhum"
    /\ antes = [existe |-> FALSE, pares |-> <<>>, completo |-> FALSE]
    /\ relogio = 0

SemExtracao ==
    /\ modelo_id = Nenhum
    /\ system_prompt = Nenhum
    /\ topicos_modelo = <<>>
    /\ bloco = 0
    /\ resumos = <<>>
    /\ chamadas = <<>>

SemMain ==
    /\ pasta = [existe |-> FALSE, arquivos |-> <<>>]
    /\ project_id = "PROJETO_001"
    /\ consolidado = <<>>
    /\ resumo_executivo = <<>>
    /\ saidas = <<>>
    /\ exit_code = -1

-----------------------------------------------------------------------------
(* dividir_em_chunks *)

palavras_por_chunk == MAX_CHUNK_SIZE \div 4

palavras_sobreposicao == CHUNK_OVERLAP \div 4

FimSemLimite(ini) == ini + palavras_por_chunk

Fim(ini) == Min(ini + palavras_por_chunk, Len(palavras))

AvancoSemSobreposicao(ini) == ini + palavras_por_chunk

Avanco(ini) == ini + (palavras_por_chunk - palavras_sobreposicao)

\* lines 163-173: the empty-text return, else split and start at word 0
DividirInicio ==
    /\ pc = "dividir"
    /\ IF texto = <<>>
       THEN /\ pc' = "dividido"
            /\ palavras' = <<>>
       ELSE /\ pc' = "laco"
            /\ palavras' = Split(texto)
    /\ chunks' = <<>>
    /\ janelas' = <<>>
    /\ i' = 0
    /\ excedente' = 0
    /\ UNCHANGED <<MAX_CHUNK_SIZE, CHUNK_OVERLAP, texto>>
    /\ UNCHANGED <<lojaVars, orientacoes, extVars, mainVars>>

\* lines 174-185: one evaluation of the while condition and, when it holds,
\* one iteration of the body.  A call that returns appends at most one chunk
\* per word; past Len(palavras) + 1 chunks the model keeps only the parity
\* of what the list goes on receiving.
LacoPasso ==
    /\ pc = "laco"
    /\ IF ~(i < Len(palavras))
       THEN /\ pc' = "dividido"
            /\ UNCHANGED <<chunks, janelas, i, excedente>>
       ELSE LET fim == Fim(i)
                chunk == Join(Slice(palavras, i, fim))
            IN  /\ IF Len(chunks) <= Len(palavras)
                   THEN /\ chunks' = Append(chunks, chunk)
                        /\ janelas' = Append(janelas, <<i, fim>>)
                        /\ excedente' = excedente
                   ELSE /\ excedente' = 1 - excedente
                        /\ UNCHANGED <<chunks, janelas>>
                /\ IF fim = Len(palavras)
                   THEN /\ pc' = "dividido"
                        /\ i' = i
                   ELSE /\ pc' = "laco"
                        /\ i' = Avanco(i)
    /\ UNCHANGED <<MAX_CHUNK_SIZE, CHUNK_OVERLAP, texto, palavras>>
    /\ UNCHANGED <<lojaVars, orientacoes, extVars, mainVars>>

-----------------------------------------------------------------------------
(* The profile store: carregar_orientacoes_modelos, salvar_orientacao_modelo *)

\* A Python dict / JSON object: a sequence of <<key, value>> pairs with
\* distinct keys, in insertion order.
Chaves(d) == {d[k][1] : k \in DOMAIN d}

Valor(d, chave) == d[CHOOSE k \in DOMAIN d : d[k][1] = chave][2]

\* d[chave] = valor
Atribuir(d, chave, valor) ==
    IF chave \in Chaves(d)
    THEN [k \in DOMAIN d |-> IF d[k][1] = chave THEN <<chave, valor>> ELSE d[k]]
    ELSE Append(d, <<chave, valor>>)

\* A value of the mapping is a str or a dict; a str s is the record
\* [str |-> s], a dict the record of its keys.
Str(s) == [str |-> s]

EhStr(v) == DOMAIN v = {"str"}

\* the two default orientations: line 38 (no file) and line 42 (after an error)
PadraoSemArquivo == Str("Voce e um Analista ... Sua missao e extrair apenas fatos e requisitos tecnicos.")

PadraoAposErro == Str("Voce e um Analista ... de dados tecnicos.")

\* The file on disk: absent, or the pairs written so far and whether the
\* JSON text is whole (closing brace written).
Ausente == [existe |-> FALSE, pares |-> <<>>, completo |-> FALSE]

Completo(d) == [existe |-> TRUE, pares |-> d, completo |-> TRUE]

\* lines 29-42; falha_io: open() or read() raises
carregar_orientacoes_modelos(arq, falha_io) ==
    IF ~arq.existe THEN <<<<"default", PadraoSemArquivo>>>>
    ELSE IF falha_io \/ ~arq.completo THEN <<<<"default", PadraoAposErro>>>>
    ELSE arq.pares

\* lines 48-53
NovaEntrada(nome_modelo, orientacao, topicos, agora) ==
    [nome |-> nome_modelo, orientacao |-> orientacao, topicos |-> topicos,
     ultima_atualizacao |-> agora]

IdsDeModelo == {"default", "A", "B"}

Nomes == {"Contrato"}

Orientacoes == {"o1", "o2"}

\* topic dicts carry their name under 'nome', under 'name', or not at all
ListasDeTopicos ==
    { <<>>,
      <<[nome |-> "Escopo"], [name |-> "Prazo"]>>,
      <<[id |-> "t1"]>> }

\* between calls: nothing running, or the last save returned (written / failed)
Repouso == {"parado", "salvo", "erro_ao_salvar"}

\* lines 44-53: the call, its load and the entry it sets
SalvarCarregar ==
    /\ pc \in Repouso
    /\ relogio < MaxSalvar
    /\ \E model_id \in IdsDeModelo, nome_modelo \in Nomes, orientacao \in Orientacoes,
          topicos \in ListasDeTopicos, falha_io \in BOOLEAN :
          /\ falha_io => arquivo.existe
          /\ orientacoes' =
                Atribuir(carregar_orientacoes_modelos(arquivo, falha_io), model_id,
                         NovaEntrada(nome_modelo, orientacao, topicos, relogio + 1))
          /\ salvando' = model_id
    /\ relogio' = relogio + 1
    /\ antes' = arquivo
    /\ pc' = "salvar_abrir"
    /\ UNCHANGED <<arquivo, chunkVars, extVars, mainVars>>

\* line 55: open(ORIENTACOES_FILE, "w") truncates the file, or raises and
\* leaves it alone (line 59)
SalvarAbrir ==
    /\ pc = "salvar_abrir"
    /\ \/ /\ arquivo' = [existe |-> TRUE, pares |-> <<>>, completo |-> FALSE]
          /\ pc' = "salvar_escrever"
       \/ /\ arquivo' = arquivo
          /\ pc' = "erro_ao_salvar"
    /\ UNCHANGED <<orientacoes, salvando, antes, relogio, chunkVars, extVars, mainVars>>

\* line 56: json.dump writes the object pair by pair; the write can fail or
\* be cut at any pair, leaving what was written (line 59 only logs)
SalvarEscrever ==
    /\ pc = "salvar_escrever"
    /\ LET n == Len(arquivo.pares)
       IN  \/ /\ n < Len(orientacoes)
              /\ arquivo' = [arquivo EXCEPT !.pares = Append(@, orientacoes[n + 1])]
              /\ pc' = "salvar_escrever"
           \/ /\ n = Len(orientacoes)
              /\ arquivo' = [arquivo EXCEPT !.completo = TRUE]
              /\ pc' = "salvo"
           \/ /\ arquivo' = arquivo
              /\ pc' = "erro_ao_salvar"
    /\ UNCHANGED <<orientacoes, salvando, antes, relogio, chunkVars, extVars, mainVars>>

\* lines 65 / 219 / 375: a load by listar_modelos_disponiveis or another caller
Carregar ==
    /\ pc \in Repouso
    /\ \E falha_io \in BOOLEAN :
          /\ falha_io => arquivo.existe
          /\ orientacoes' = carregar_orientacoes_modelos(arquivo, falha_io)
    /\ UNCHANGED <<pc, lojaVars, chunkVars, extVars, mainVars>>

LojaInit ==
    /\ arquivo = Ausente
    /\ orientacoes = <<>>
    /\ pc = "parado"
    /\ SemSalvar
    /\ ConfiguracaoDoCodigo
    /\ SemTexto
    /\ SemExtracao
    /\ SemMain

LojaNext == SalvarCarregar \/ SalvarAbrir \/ SalvarEscrever \/ Carregar

SpecLoja == LojaInit /\ [][LojaNext]_vars

\* the mapping a reader gets from the file: none when the file is absent,
\* cut or empty
Persistido(arq) == IF arq.existe /\ arq.completo THEN arq.pares ELSE <<>>

\* C7: at every point of a save, and after a save that failed, the file
\* holds the whole mapping from before the save or the whole new mapping,
\* never an empty or partly written one (stated for a save that found a
\* whole mapping in the file).
C7_SalvarAtomico ==
    (pc \in {"salvar_abrir", "salvar_escrever", "salvo", "erro_ao_salvar"}
        /\ antes.existe /\ antes.completo) =>
        \/ arquivo = antes
        \/ arquivo = Completo(orientacoes)

\* C8: when a save has written the file, every entry other than model_id's
\* that the file held before the save is still in it, unchanged.
C8_SalvarPreservaOutros ==
    pc = "salvo" =>
        \A chave \in Chaves(Persistido(antes)) \ {salvando} :
            /\ chave \in Chaves(Persistido(arquivo))
            /\ Valor(Persistido(arquivo), chave) = Valor(Persistido(antes), chave)

-----------------------------------------------------------------------------
(* chamar_ollama and extrair_informacoes *)

\* Inference responses are character strings over Alfabeto; Frase is the
\* substring line 290 looks for, Sentinela the answer rule 4 of the system
\* prompt (line 251) asks for.
Alfabeto == {" ", "N", "."}

Frase == <<"N", "N">>

Sentinela == <<"N", "N", ".">>

Respostas == SeqsAte(Alfabeto, MaxResposta)

RECURSIVE StripEsquerda(_)
StripEsquerda(r) == IF r # <<>> /\ Head(r) = " " THEN StripEsquerda(Tail(r)) ELSE r

RECURSIVE StripDireita(_)
StripDireita(r) ==
    IF r # <<>> /\ r[Len(r)] = " " THEN StripDireita(SubSeq(r, 1, Len(r) - 1)) ELSE r

\* str.strip()
Strip(r) == StripDireita(StripEsquerda(r))

Igual(sub, r) == sub = r

\* sub in r
Contem(sub, r) == \E k \in 0..(Len(r) - Len(sub)) : SubSeq(r, k + 1, k + Len(sub)) = sub

\* lines 204-210: the response text, or "" when the request fails
chamar_ollama(falha, resposta) == IF falha THEN <<>> ELSE resposta

\* truthiness of a model id: neither None nor ""
Dado(m) == m # Nenhum /\ m.str # ""

\* line 237: the orientation used when "default" is missing from the mapping
OrientacaoDeReserva == Str("Como profissional de TI ... foque na extracao de requisitos ...")

\* line 263: topico.get('nome', topico.get('name', f'Topico {j}'))
NomeDoTopico(topico, j) ==
    IF "nome" \in DOMAIN topico THEN topico.nome
    ELSE IF "name" \in DOMAIN topico THEN topico.name
    ELSE "Topico " \o ToString(j)

\* lines 242-252: base behaviour, the orientation, the critical rules
SystemPrompt(orientacao_especifica) ==
    [base |-> "comportamento_base", orientacao |-> orientacao_especifica,
     regras |-> "REGRAS CRITICAS"]

\* lines 258-287
Prompt(topicos, chunk) ==
    IF topicos # <<>>
    THEN [tipo |-> "topicos",
          linhas |-> [j \in DOMAIN topicos |-> <<j, NomeDoTopico(topicos[j], j)>>],
          chunk |-> chunk]
    ELSE [tipo |-> "generico", linhas |-> <<>>, chunk |-> chunk]

\* lines 216-252: load the mapping and resolve the model.  Indexing a str
\* value with ["orientacao"] raises TypeError, which nothing catches.
ExtrairResolver ==
    /\ pc \in {"extrair", "dividido"}
    /\ \E falha_io \in BOOLEAN :
          /\ falha_io => arquivo.existe
          /\ LET carregado == carregar_orientacoes_modelos(arquivo, falha_io)
             IN  /\ orientacoes' = carregado
                 /\ IF Dado(modelo_id) /\ modelo_id.str \in Chaves(carregado)
                    THEN LET entrada == Valor(carregado, modelo_id.str)
                         IN  IF EhStr(entrada)
                             THEN /\ pc' = "excecao"
                                  /\ UNCHANGED <<system_prompt, topicos_modelo>>
                             ELSE /\ pc' = "bloco"
                                  /\ system_prompt' = SystemPrompt(Str(entrada.orientacao))
                                  /\ topicos_modelo' = entrada.topicos
                    ELSE /\ pc' = "bloco"
                         /\ system_prompt' =
                               SystemPrompt(IF "default" \in Chaves(carregado)
                                            THEN Valor(carregado, "default")
                                            ELSE OrientacaoDeReserva)
                         /\ topicos_modelo' = <<>>
    /\ resumos' = <<>>
    /\ bloco' = 1
    /\ UNCHANGED <<modelo_id, chamadas, lojaVars, chunkVars, mainVars>>

\* lines 254-293: one iteration of the loop over the chunks, or its end
AnalisarBloco(R) ==
    /\ pc = "bloco"
    /\ IF bloco > Len(chunks)
       THEN /\ pc' = "extraido"
            /\ UNCHANGED <<bloco, resumos, chamadas>>
       ELSE \E falha \in BOOLEAN, texto_ia \in R :
               LET prompt == Prompt(topicos_modelo, chunks[bloco])
                   resposta == chamar_ollama(falha, texto_ia)
               IN  /\ chamadas' = Append(chamadas,
                                    [fase |-> "extracao", bloco |-> bloco,
                                     system |-> system_prompt, prompt |-> prompt,
                                     falhou |-> falha, resposta |-> resposta])
                   /\ resumos' = IF ~Contem(Frase, resposta)
                                 THEN Append(resumos, Strip(resposta))
                                 ELSE resumos
                   /\ bloco' = bloco + 1
                   /\ pc' = "bloco"
    /\ UNCHANGED <<modelo_id, system_prompt, topicos_modelo, orientacoes,
                   lojaVars, chunkVars, mainVars>>

\* stores the program can have written: none, one save, two saves
EntradaA == NovaEntrada("Contrato", "o1", <<[nome |-> "Escopo"], [name |-> "Prazo"]>>, 1)

EntradaB == NovaEntrada("Ata", "o2", <<>>, 2)

EntradaC == NovaEntrada("Laudo", "o2", <<[id |-> "t1"], [nome |-> "Custo"]>>, 2)

ArquivoAposSalvar(arq, model_id, entrada) ==
    Completo(Atribuir(carregar_orientacoes_modelos(arq, FALSE), model_id, entrada))

LojasIniciais ==
    { Ausente,
      ArquivoAposSalvar(Ausente, "A", EntradaA),
      ArquivoAposSalvar(ArquivoAposSalvar(Ausente, "A", EntradaA), "B", EntradaB),
      ArquivoAposSalvar(ArquivoAposSalvar(Ausente, "A", EntradaA), "C", EntradaC),
      [existe |-> TRUE, pares |-> <<>>, completo |-> FALSE] }

IdsPedidos == {Nenhum, Str(""), Str("default"), Str("A"), Str("B"), Str("C"), Str("Y")}

\* chunk k is a text of k words
ChunksDeEntrada == {[k \in 1..n |-> Join([j \in 1..k |-> "a"])] : n \in 0..MaxBlocos}

RespostasCurtas == {<<>>, Sentinela, <<" ", ".">>}

ExtrairParado ==
    /\ pc = "extrair"
    /\ orientacoes = <<>>
    /\ system_prompt = Nenhum
    /\ topicos_modelo = <<>>
    /\ bloco = 0
    /\ resumos = <<>>
    /\ chamadas = <<>>
    /\ ConfiguracaoDoCodigo
    /\ texto = <<>>
    /\ palavras = <<>>
    /\ janelas = <<>>
    /\ i = 0
    /\ excedente = 0
    /\ SemSalvar
    /\ SemMain

\* extrair_informacoes(chunks, modelo_id) over every store and model id
ExtrairInit ==
    /\ arquivo \in LojasIniciais
    /\ modelo_id \in IdsPedidos
    /\ chunks \in ChunksDeEntrada
    /\ ExtrairParado

ExtrairNext == ExtrairResolver \/ AnalisarBloco(RespostasCurtas)

SpecExtrair == ExtrairInit /\ [][ExtrairNext]_vars

\* extrair_informacoes(chunks) over every sequence of inference responses
FiltroInit ==
    /\ arquivo = Ausente
    /\ modelo_id = Nenhum
    /\ chunks \in ChunksDeEntrada
    /\ ExtrairParado

FiltroNext == ExtrairResolver \/ AnalisarBloco(Respostas)

SpecFiltro == FiltroInit /\ [][FiltroNext]_vars

-----------------------------------------------------------------------------
(* Properties of extrair_informacoes *)

\* the response holds the phrase "Nenhuma informacao tecnica relevante"
TemFrase(r) == \E k \in 1..(Len(r) - 1) : r[k] = "N" /\ r[k + 1] = "N"

\* t is r without its leading and trailing whitespace
Aparado(r, t) ==
    /\ t # <<>> => t[1] # " " /\ t[Len(t)] # " "
    /\ \E a \in 0..Len(r) :
          /\ a + Len(t) <= Len(r)
          /\ \A k \in 1..Len(r) :
                IF k <= a \/ k > a + Len(t) THEN r[k] = " " ELSE r[k] = t[k - a]

ExtracoesFeitas == SelectSeq(chamadas, LAMBDA c : c.fase = "extracao")

\* resumos is, in call order, the trimmed text of the responses in ret
ResumosSao(ret) ==
    /\ Len(resumos) = Len(ret)
    /\ \A k \in 1..Len(ret) : Aparado(ret[k].resposta, resumos[k])

\* C3 as stated: the result is, in chunk order, the trimmed responses that
\* are not the sentinel string.
C3_ExcluiIgualSentinela ==
    ResumosSao(SelectSeq(ExtracoesFeitas, LAMBDA c : c.resposta # Sentinela))

\* C3 amended: the result is, in chunk order, the trimmed responses that do
\* not contain the phrase (the sentinel without its final period); an empty
\* response is kept as an empty string.
C3_ExcluiQuemContemFrase ==
    ResumosSao(SelectSeq(ExtracoesFeitas, LAMBDA c : ~TemFrase(c.resposta)))

C3_Witness ==
    /\ pc = "extraido"
    /\ Len(chamadas) = 2
    /\ chamadas[1].resposta = <<" ", ".", " ">>
    /\ TemFrase(chamadas[2].resposta) /\ chamadas[2].resposta # Sentinela
    /\ resumos = <<<<".">>>>

\* what the mapping holds for a key: a str entry is its own orientation
OrientacaoDaEntrada(v) == IF EhStr(v) THEN v ELSE Str(v.orientacao)

TopicosDaEntrada(v) == IF EhStr(v) THEN <<>> ELSE v.topicos

\* the prompt enumerates the topics by name, or is the generic one
PromptEnumera(prompt, topicos) ==
    IF topicos = <<>> THEN prompt.tipo = "generico"
    ELSE /\ prompt.tipo = "topicos"
         /\ Len(prompt.linhas) = Len(topicos)
         /\ \A j \in DOMAIN topicos :
               /\ "nome" \in DOMAIN topicos[j] => prompt.linhas[j][2] = topicos[j].nome
               /\ ("nome" \notin DOMAIN topicos[j] /\ "name" \in DOMAIN topicos[j])
                     => prompt.linhas[j][2] = topicos[j].name

\* C5: once the model is resolved, a model_id that is in the mapping gives a
\* system instruction with that entry's orientation and prompts that
\* enumerate that entry's topics; a model_id that is not, or None, gives the
\* "default" orientation and the generic prompt.
C5_ResolucaoDoModelo ==
    pc \in {"bloco", "extraido", "excecao"} =>
        LET presente == modelo_id # Nenhum /\ modelo_id.str \in Chaves(orientacoes)
            entrada == Valor(orientacoes, IF presente THEN modelo_id.str ELSE "default")
        IN  /\ system_prompt # Nenhum
            /\ system_prompt.orientacao = OrientacaoDaEntrada(entrada)
            /\ \A k \in DOMAIN chamadas :
                  PromptEnumera(chamadas[k].prompt,
                                IF presente THEN TopicosDaEntrada(entrada) ELSE <<>>)

-----------------------------------------------------------------------------
(* ler_pasta_projeto, consolidar_analise and the main program *)

\* A folder: whether it exists and its files.  A file: the words of its
\* base name, its extension, the text its reader extracts and whether the
\* read succeeds.
Glob(p, ext) == SelectSeq(p.arquivos, LAMBDA f : f.ext = ext)

\* lines 136-140: the files found, pattern by pattern
ArquivosCompativeis(p) == Glob(p, "pdf") \o Glob(p, "docx") \o Glob(p, "doc") \o Glob(p, "txt")

\* lines 99-124: the text, or "" when the read fails
Ler(f) == IF f.legivel THEN f.conteudo ELSE <<>>

\* line 148: "\n\n### ARQUIVO: <basename> ###\n\n"
Cabecalho(f) == <<WS, "###", WS, "ARQUIVO:", WS>> \o f.nome \o <<WS, "###", WS>>

RECURSIVE TextoTotal(_)
\* lines 146-155
TextoTotal(arqs) ==
    IF arqs = <<>> THEN <<>>
    ELSE Cabecalho(Head(arqs)) \o Ler(Head(arqs)) \o TextoTotal(Tail(arqs))

RECURSIVE StripTexto(_)
\* str.strip() of a text
StripTexto(t) ==
    IF t # <<>> /\ Head(t) = WS THEN StripTexto(Tail(t))
    ELSE IF t # <<>> /\ t[Len(t)] = WS THEN StripTexto(SubSeq(t, 1, Len(t) - 1))
    ELSE t

\* lines 126-157
ler_pasta_projeto(p) ==
    IF ~p.existe THEN <<>>
    ELSE IF ArquivosCompativeis(p) = <<>> THEN <<>>
    ELSE StripTexto(TextoTotal(ArquivosCompativeis(p)))

RECURSIVE JuntarLinhas(_)
\* chr(10).join(extracoes), "\n" written as the character "n"
JuntarLinhas(rs) ==
    IF rs = <<>> THEN <<>>
    ELSE IF Len(rs) = 1 THEN rs[1]
    ELSE rs[1] \o <<"n">> \o JuntarLinhas(Tail(rs))

\* line 325: concluido[:2000]
LimiteDoResumo == 2000

\* lines 356-382: the model id of the command line, dropped when the mapping
\* does not hold it
MainInicio ==
    /\ pc = "main"
    /\ IF Dado(modelo_id)
       THEN \E falha_io \in BOOLEAN :
               /\ falha_io => arquivo.existe
               /\ orientacoes' = carregar_orientacoes_modelos(arquivo, falha_io)
               /\ modelo_id' = IF modelo_id.str \in Chaves(orientacoes')
                               THEN modelo_id ELSE Nenhum
       ELSE UNCHANGED <<orientacoes, modelo_id>>
    /\ pc' = "ler_pasta"
    /\ UNCHANGED <<system_prompt, topicos_modelo, bloco, resumos, chamadas,
                   lojaVars, chunkVars, mainVars>>

\* lines 384-390: read the folder; exit 0 when there is no text
LerPasta ==
    /\ pc = "ler_pasta"
    /\ texto' = ler_pasta_projeto(pasta)
    /\ IF texto' = <<>>
       THEN /\ pc' = "fim"
            /\ exit_code' = 0
       ELSE /\ pc' = "dividir"
            /\ exit_code' = exit_code
    /\ UNCHANGED <<MAX_CHUNK_SIZE, CHUNK_OVERLAP, palavras, chunks, janelas, i, excedente,
                   pasta, project_id, consolidado, resumo_executivo, saidas,
                   lojaVars, orientacoes, extVars>>

\* lines 393-395: exit 0 when nothing was retained
MainAposExtrair ==
    /\ pc = "extraido"
    /\ IF resumos = <<>>
       THEN /\ pc' = "fim"
            /\ exit_code' = 0
       ELSE /\ pc' = "consolidar"
            /\ exit_code' = exit_code
    /\ UNCHANGED <<pasta, project_id, consolidado, resumo_executivo, saidas,
                   lojaVars, orientacoes, extVars, chunkVars>>

\* lines 299-316: the consolidation call
Consolidar(R) ==
    /\ pc = "consolidar"
    /\ \E falha \in BOOLEAN, texto_ia \in R :
          LET resposta == chamar_ollama(falha, texto_ia)
          IN  /\ chamadas' = Append(chamadas,
                               [fase |-> "consolidacao", bloco |-> 0,
                                system |-> Str("Engenheiro de Requisitos Senior"),
                                prompt |-> [tipo |-> "consolidacao", linhas |-> <<>>,
                                            chunk |-> JuntarLinhas(resumos)],
                                falhou |-> falha, resposta |-> resposta])
              /\ consolidado' = resposta
    /\ pc' = "resumir"
    /\ UNCHANGED <<pasta, project_id, resumo_executivo, saidas, exit_code,
                   modelo_id, system_prompt, topicos_modelo, bloco, resumos,
                   lojaVars, orientacoes, chunkVars>>

\* lines 318-330: the summary call, on the first 2000 characters
Resumir(R) ==
    /\ pc = "resumir"
    /\ \E falha \in BOOLEAN, texto_ia \in R :
          LET resposta == chamar_ollama(falha, texto_ia)
          IN  /\ chamadas' = Append(chamadas,
                               [fase |-> "resumo", bloco |-> 0,
                                system |-> Str("Engenheiro de Requisitos Senior"),
                                prompt |-> [tipo |-> "resumo", linhas |-> <<>>,
                                            chunk |-> SubSeq(consolidado, 1,
                                                Min(LimiteDoResumo, Len(consolidado)))],
                                falhou |-> falha, resposta |-> resposta])
              /\ resumo_executivo' = resposta
    /\ pc' = "gravar_contexto"
    /\ UNCHANGED <<pasta, project_id, consolidado, saidas, exit_code,
                   modelo_id, system_prompt, topicos_modelo, bloco, resumos,
                   lojaVars, orientacoes, chunkVars>>

\* lines 402-410: CONTEXTO_<id>.txt, the header line and the document
GravarContexto ==
    /\ pc = "gravar_contexto"
    /\ saidas' = Append(saidas, [nome |-> <<"CONTEXTO_", project_id, ".txt">>,
                                 cabecalho |-> <<"# BASE DE CONHECIMENTO CONSOLIDADA", project_id>>,
                                 conteudo |-> consolidado])
    /\ pc' = "gravar_resumo"
    /\ UNCHANGED <<pasta, project_id, consolidado, resumo_executivo, exit_code,
                   lojaVars, orientacoes, extVars, chunkVars>>

\* lines 412-421: RESUMO_IA_<id>.txt, then the script ends
GravarResumo ==
    /\ pc = "gravar_resumo"
    /\ saidas' = Append(saidas, [nome |-> <<"RESUMO_IA_", project_id, ".txt">>,
                                 cabecalho |-> <<>>,
                                 conteudo |-> resumo_executivo])
    /\ pc' = "fim"
    /\ exit_code' = 0
    /\ UNCHANGED <<pasta, project_id, consolidado, resumo_executivo,
                   lojaVars, orientacoes, extVars, chunkVars>>

\* an exception nothing catches ends the process with status 1
Abortar ==
    /\ pc = "excecao"
    /\ pc' = "fim"
    /\ exit_code' = 1
    /\ UNCHANGED <<pasta, project_id, consolidado, resumo_executivo, saidas,
                   lojaVars, orientacoes, extVars, chunkVars>>

\* n repeated words
Repetidas(n) == Join([k \in 1..n |-> "w"])

\* base names of one word or more
NomesDeArquivo == {Join([k \in 1..n |-> "doc"]) : n \in 1..MaxNomePalavras}

\* folders: missing, empty, one file, a pdf and a txt
Arquivos(exts, tamanhos) ==
    [nome : NomesDeArquivo, ext : exts, conteudo : {Repetidas(n) : n \in tamanhos},
     legivel : BOOLEAN]

Pastas ==
    {[existe |-> FALSE, arquivos |-> <<>>], [existe |-> TRUE, arquivos |-> <<>>]}
    \cup {[existe |-> TRUE, arquivos |-> <<f>>] : f \in Arquivos({"txt", "md"}, {0, 500, 600})}
    \cup {[existe |-> TRUE, arquivos |-> <<f, g>>] :
            f \in Arquivos({"txt"}, {300}), g \in Arquivos({"pdf"}, {1})}

RespostasFinais == {<<>>, <<".">>}

MainInit ==
    /\ pc = "main"
    /\ arquivo \in LojasIniciais
    /\ modelo_id \in {Nenhum, Str("default"), Str("A"), Str("Y")}
    /\ pasta \in Pastas
    /\ project_id = "PROJETO_001"
    /\ consolidado = <<>>
    /\ resumo_executivo = <<>>
    /\ saidas = <<>>
    /\ exit_code = -1
    /\ orientacoes = <<>>
    /\ system_prompt = Nenhum
    /\ topicos_modelo = <<>>
    /\ bloco = 0
    /\ resumos = <<>>
    /\ chamadas = <<>>
    /\ ConfiguracaoDoCodigo
    /\ SemTexto
    /\ SemSalvar

MainNext ==
    \/ MainInicio
    \/ LerPasta
    \/ DividirInicio
    \/ LacoPasso
    \/ ExtrairResolver
    \/ AnalisarBloco(RespostasCurtas)
    \/ MainAposExtrair
    \/ Consolidar(RespostasFinais)
    \/ Resumir(RespostasFinais)
    \/ GravarContexto
    \/ GravarResumo
    \/ Abortar

SpecMain == MainInit /\ [][MainNext]_vars

-----------------------------------------------------------------------------
(* Properties of the main program *)

FalhasDeExtracao == {k \in DOMAIN chamadas : chamadas[k].fase = "extracao" /\ chamadas[k].falhou}

SucessosDeExtracao == {k \in DOMAIN chamadas : chamadas[k].fase = "extracao" /\ ~chamadas[k].falhou}

AposExtracao == {"consolidar", "resumir", "gravar_contexto", "gravar_resumo"}

\* C4: a chunk whose inference call fails adds nothing to the extraction
\* results, so a run whose extraction calls all fail retains nothing and
\* ends before consolidation.
C4_FalhaNaoContribui ==
    /\ Len(resumos) <= Cardinality(SucessosDeExtracao)
    /\ (FalhasDeExtracao # {} /\ SucessosDeExtracao = {}) =>
            /\ resumos = <<>>
            /\ pc \notin AposExtracao
            /\ saidas = <<>>

\* the folder of the scenario: one readable .txt file of 500 repeated words,
\* chunked with MAX_CHUNK_SIZE = 1200 and CHUNK_OVERLAP = 250
Cenario500 ==
    /\ MAX_CHUNK_SIZE = 1200 /\ CHUNK_OVERLAP = 250
    /\ pasta.existe
    /\ Len(pasta.arquivos) = 1
    /\ pasta.arquivos[1].ext = "txt"
    /\ pasta.arquivos[1].legivel
    /\ pasta.arquivos[1].conteudo = Repetidas(500)

Dividiu == pc \in {"dividido", "bloco", "extraido", "excecao", "fim"} \cup AposExtracao

\* C6 as stated: the scenario produces 3 chunks.
C6_TresChunks == (Dividiu /\ Cenario500) => Len(chunks) = 3

\* C6 amended: the scenario produces 2 chunks, the first of 300 words and
\* the second, starting 62 words before the end of the first, reaching the
\* last word of the corpus (the 500 words and the words of the file marker).
C6_DoisChunks ==
    (Dividiu /\ Cenario500) =>
        /\ Len(chunks) = 2
        /\ Len(palavras) = 500 + 3 + Len(Split(pasta.arquivos[1].nome))
        /\ janelas = <<<<0, 300>>, <<238, Len(palavras)>>>>
        /\ Len(Split(chunks[1])) = 300
        /\ Len(Split(chunks[2])) = Len(palavras) - 238

C6_Witness == pc = "fim" /\ Len(saidas) = 2 /\ Len(chunks) = 2 /\ Cenario500

FasesDasChamadas == [k \in DOMAIN chamadas |-> chamadas[k].fase]

NomesDasSaidas == [k \in DOMAIN saidas |-> saidas[k].nome[1]]

EhPrefixo(a, b) == Len(a) <= Len(b) /\ SubSeq(b, 1, Len(a)) = a

\* C10: the calls are one extraction per chunk in chunk order, then one
\* consolidation, then one summary, then the two file writes; consolidation,
\* summary and writes only with a retained extraction; a run that ends
\* without them ends with exit code 0, having made its extraction calls.
C10_OrdemDasFases ==
    LET n == Len(chunks)
        esperado == [k \in 1..(n + 2) |->
                        IF k <= n THEN "extracao"
                        ELSE IF k = n + 1 THEN "consolidacao" ELSE "resumo"]
    IN  /\ EhPrefixo(FasesDasChamadas, esperado)
        /\ \A k \in DOMAIN chamadas :
              chamadas[k].fase = "extracao" =>
                  chamadas[k].bloco = k /\ chamadas[k].prompt.chunk = chunks[k]
        /\ EhPrefixo(NomesDasSaidas, <<"CONTEXTO_", "RESUMO_IA_">>)
        /\ Len(chamadas) > n => resumos # <<>>
        /\ saidas # <<>> => Len(chamadas) = n + 2
        /\ pc = "fim" =>
              /\ exit_code = 0
              /\ IF resumos # <<>>
                 THEN Len(chamadas) = n + 2 /\ Len(saidas) = 2
                 ELSE Len(chamadas) = n /\ saidas = <<>>

-----------------------------------------------------------------------------
(* dividir_em_chunks called on any text under any configuration *)

Lexemas == {WS, "a", "b"}

\* the chunk size is at least one word (4 characters), the overlap at most
\* the chunk size
ChunkInit ==
    /\ MAX_CHUNK_SIZE \in 4..MaxChars
    /\ CHUNK_OVERLAP \in 0..MAX_CHUNK_SIZE
    /\ texto \in {t \in SeqsAte(Lexemas, MaxTexto) : EhTexto(t)}
    /\ palavras = <<>>
    /\ chunks = <<>>
    /\ janelas = <<>>
    /\ i = 0
    /\ excedente = 0
    /\ pc = "dividir"
    /\ arquivo = Ausente
    /\ orientacoes = <<>>
    /\ SemSalvar
    /\ SemExtracao
    /\ SemMain

ChunkNext == DividirInicio \/ LacoPasso

SpecChunk == ChunkInit /\ [][ChunkNext]_vars

FairSpecChunk == SpecChunk /\ WF_vars(ChunkNext)

-----------------------------------------------------------------------------
(* Properties of dividir_em_chunks *)

\* the words of window k that window k - 1 already holds
Partilhadas(k) == janelas[k - 1][2] - janelas[k][1]

RECURSIVE Fundir(_)
\* the recorded windows 1..k merged in order, each without the words it
\* shares with the one before
Fundir(k) ==
    IF k = 0 THEN <<>>
    ELSE IF k = 1 THEN Split(chunks[1])
    ELSE LET ws == Split(chunks[k])
             n == IF Partilhadas(k) > 0 THEN Partilhadas(k) ELSE 0
         IN  Fundir(k - 1) \o SubSeq(ws, n + 1, Len(ws))

JanelasCobrem ==
    /\ Fundir(Len(chunks)) = palavras
    /\ \A k \in 1..Len(chunks) : Split(chunks[k]) = Slice(palavras, janelas[k][1], janelas[k][2])
    /\ \A k \in 2..Len(chunks) : Partilhadas(k) >= 0
    /\ chunks # <<>> => janelas[Len(chunks)][2] = Len(palavras)

\* C1: for a non-empty text and overlap_chars < max_chunk_chars the call
\* returns, and the windows it returns merge back into the word sequence
\* with the last one ending at the final word.
C1_RetornaCobertura ==
    (texto # <<>> /\ CHUNK_OVERLAP < MAX_CHUNK_SIZE)
        => <>(pc = "dividido" /\ JanelasCobrem)

\* C2: under a configuration with words_per_chunk <= words_overlap the call
\* terminates for every text.
C2_Termina ==
    (palavras_por_chunk <= palavras_sobreposicao) => <>(pc = "dividido")

\* C9: with words_per_chunk > words_overlap, window k+1 starts exactly
\* overlap_chars/4 words before the end of window k and the two windows
\* share exactly those words (checked for every pair, the last included).
C9_SobreposicaoExata ==
    palavras_por_chunk > palavras_sobreposicao =>
        \A k \in 2..Len(chunks) :
            LET ant == Split(chunks[k - 1])
                atu == Split(chunks[k])
                n == palavras_sobreposicao
            IN  /\ janelas[k][1] = janelas[k - 1][2] - n
                /\ Min(janelas[k - 1][2], janelas[k][2]) - janelas[k][1] = n
                /\ Len(atu) >= n
                /\ SubSeq(ant, Len(ant) - n + 1, Len(ant)) = SubSeq(atu, 1, n)

C9_Witness ==
    /\ pc = "dividido"
    /\ palavras_sobreposicao > 0
    /\ palavras_por_chunk > palavras_sobreposicao
    /\ Len(chunks) >= 3

\* every call that returns under overlap_chars//4 < max_chunk_chars//4 covers the text
RetornoCobre ==
    (pc = "dividido" /\ palavras_por_chunk > palavras_sobreposicao) => JanelasCobrem

====
